---- MODULE Spec2Model ----
(***************************************************************************)
(* Model of pkg/registry/registry.go: image reference parsing, pull-secret *)
(* lookup, manifest / manifest-list resolution, layer digests, layer fetch *)
(* and the tar scan with its three JSON projectors.                        *)
(*                                                                         *)
(* Strings that the code cuts or concatenates (image references, registry  *)
(* hosts, repository names, digests, media types) are sequences of tokens; *)
(* strings that are only compared (tar entry names, JSON keys, error       *)
(* names) are TLA+ strings.                                                *)
(***************************************************************************)
EXTENDS Naturals, Sequences, FiniteSets

\* ------------------------------------------------------------ bounds
MaxImageLen == 5
MaxLayers == 2
MaxManifests == 2
MaxTarEntries == 3
MaxTags == 2

\* ------------------------------------------------------------ strings
Nil == [kind |-> "nil"]

\* Characters an image reference is made of: a letter, a digit, and the
\* three separators the code and net/url give a meaning to.
Alphabet == {"h", "5", "/", ":", "@"}
Letters == {"h"}
Digits == {"5"}

SeqsUpTo(S, n) == UNION {[1..k -> S] : k \in 0..n}

Contains(s, c) == \E i \in 1..Len(s) : s[i] = c

\* strings.Index: the first position of c in s, 0 when there is none.
IndexOf(s, c) ==
    IF Contains(s, c) THEN CHOOSE i \in 1..Len(s) : s[i] = c /\ \A j \in 1..(i-1) : s[j] # c
    ELSE 0

\* strings.LastIndex: the last position of c in s, 0 when there is none.
LastIndexOf(s, c) ==
    IF Contains(s, c) THEN CHOOSE i \in 1..Len(s) : s[i] = c /\ \A j \in (i+1)..Len(s) : s[j] # c
    ELSE 0

HasPrefix(s, p) == Len(s) >= Len(p) /\ SubSeq(s, 1, Len(p)) = p

\* s[k:] of Go, for a 1-based k.
From(s, k) == SubSeq(s, k, Len(s))

\* strings.Split(s, sep)[0]: everything before the first sep, s itself
\* when sep does not occur.
SplitHead(s, c) == IF Contains(s, c) THEN SubSeq(s, 1, IndexOf(s, c) - 1) ELSE s

\* len(strings.Split(s, sep)) > 1
SplitsInTwo(s, c) == Contains(s, c)

\* ------------------------------------------------------------ net/url
\* url.getScheme: (scheme, rest, err).
getScheme(raw) ==
    LET stop == {i \in 1..Len(raw) :
                    \/ raw[i] = ":"
                    \/ raw[i] \notin (Letters \cup Digits)
                    \/ (raw[i] \in Digits /\ i = 1)}
    IN  IF stop = {} THEN [scheme |-> <<>>, rest |-> raw, err |-> FALSE]
        ELSE LET i == CHOOSE k \in stop : \A j \in stop : k <= j
             IN  IF raw[i] = ":"
                 THEN IF i = 1 THEN [scheme |-> <<>>, rest |-> <<>>, err |-> TRUE]
                      ELSE [scheme |-> SubSeq(raw, 1, i - 1), rest |-> From(raw, i + 1), err |-> FALSE]
                 ELSE [scheme |-> <<>>, rest |-> raw, err |-> FALSE]

\* url.validOptionalPort: "" or ":" followed by digits only.
validOptionalPort(port) ==
    \/ port = <<>>
    \/ /\ port[1] = ":"
       /\ \A i \in 2..Len(port) : port[i] \in Digits

\* url.parseHost for a host that is not an IP literal.
parseHost(host) ==
    LET i == LastIndexOf(host, ":")
    IN  IF i # 0 /\ ~validOptionalPort(From(host, i))
        THEN [host |-> <<>>, err |-> TRUE]
        ELSE [host |-> host, err |-> FALSE]

\* url.parseAuthority: the host is what follows the last "@".
parseAuthority(authority) ==
    LET i == LastIndexOf(authority, "@")
    IN  IF i = 0 THEN parseHost(authority) ELSE parseHost(From(authority, i + 1))

\* url.Parse, as far as Host and the error go.
urlParse(raw) ==
    LET s == getScheme(raw)
        rest == s.rest
        rootless == ~HasPrefix(rest, <<"/">>)
    IN  IF s.err THEN [host |-> <<>>, err |-> TRUE]
        ELSE IF rootless /\ s.scheme # <<>> THEN [host |-> <<>>, err |-> FALSE]
        ELSE IF rootless /\ Contains(SplitHead(rest, "/"), ":") THEN [host |-> <<>>, err |-> TRUE]
        ELSE IF (s.scheme # <<>> \/ ~HasPrefix(rest, <<"/", "/", "/">>)) /\ HasPrefix(rest, <<"/", "/">>)
        THEN parseAuthority(SplitHead(From(rest, 3), "/"))
        ELSE [host |-> <<>>, err |-> FALSE]

\* ------------------------------------------------------------ parser
registryFromImageURL(image) ==
    LET first == urlParse(image)
        u == IF first.err \/ first.host = <<>> THEN urlParse(<<"/", "/">> \o image) ELSE first
    IN  IF u.err \/ u.host = <<>>
        THEN [host |-> <<>>, err |-> "InvalidReference"]
        ELSE [host |-> u.host, err |-> "none"]

\* ------------------------------------------------------------ pull secret
\* dockerAuth values of the pull secret.
AuthEntries == {[Auth |-> "", Email |-> "e@x.com"], [Auth |-> "abc", Email |-> "e@x.com"]}

\* Registry hosts the pull secret may have an entry for.
KnownHosts == {<<"h">>, <<"h", ":", "5">>}

\* What GetSecret and the decoding of .dockerconfigjson can produce.
AuthMaps == UNION {[H -> AuthEntries] : H \in SUBSET KnownHosts}
AllSecrets ==
    {[kind |-> "unavailable"], [kind |-> "nodata"], [kind |-> "malformed"]}
        \cup {[kind |-> "ok", Auths |-> m] : m \in AuthMaps}
SampleSecrets ==
    {[kind |-> "ok", Auths |-> [x \in {<<"h">>} |-> a]] : a \in AuthEntries}

\* getImageRegistryCredentials falling back to an empty (anonymous)
\* credential for a host the pull secret has no entry for.
getImageRegistryCredentials_Anonymous(s, registry) ==
    IF s.kind = "unavailable" THEN [auth |-> Nil, err |-> "CredentialStoreUnavailable"]
    ELSE IF s.kind = "nodata" THEN [auth |-> Nil, err |-> "SecretDataMissing"]
    ELSE IF s.kind = "malformed" THEN [auth |-> Nil, err |-> "MalformedCredentials"]
    ELSE IF registry \notin DOMAIN s.Auths THEN [auth |-> [Auth |-> "", Email |-> ""], err |-> "none"]
    ELSE [auth |-> s.Auths[registry], err |-> "none"]

getImageRegistryCredentials(s, registry) ==
    IF s.kind = "unavailable" THEN [auth |-> Nil, err |-> "CredentialStoreUnavailable"]
    ELSE IF s.kind = "nodata" THEN [auth |-> Nil, err |-> "SecretDataMissing"]
    ELSE IF s.kind = "malformed" THEN [auth |-> Nil, err |-> "MalformedCredentials"]
    ELSE IF registry \notin DOMAIN s.Auths THEN [auth |-> Nil, err |-> "NoCredentialForHost"]
    ELSE [auth |-> s.Auths[registry], err |-> "none"]

\* ------------------------------------------------------------ manifests
\* strings.Contains for a token sequence.
ContainsSub(s, sub) ==
    \E i \in 1..(Len(s) + 1 - Len(sub)) : SubSeq(s, i, i + Len(sub) - 1) = sub

ManifestListMarker == <<"manifest", ".", "list">>
DockerManifestList ==
    <<"application/vnd.docker.distribution.", "manifest", ".", "list", ".", "v2+json">>
OCIImageIndex == <<"application/vnd.oci.image.", "index", ".", "v1+json">>
DockerManifest == <<"application/vnd.docker.distribution.", "manifest", ".", "v2+json">>

MediaTypeValues ==
    {[t |-> "absent"], [t |-> "num"]}
        \cup {[t |-> "str", s |-> m] : m \in {DockerManifestList, OCIImageIndex, DockerManifest}}

\* A digest as it stands in the manifest JSON; the last one has no ":".
RawDigests == {<<"sha256", ":", "a">>, <<"sha256", ":", "b">>, <<"sha256", "a">>}

\* v1.Hash.UnmarshalJSON: exactly two parts around ":".
ParseHash(raw) ==
    LET colons == {i \in 1..Len(raw) : raw[i] = ":"}
    IN  IF Cardinality(colons) # 1 THEN [err |-> TRUE, Algorithm |-> <<>>, Hex |-> <<>>]
        ELSE LET i == CHOOSE k \in colons : TRUE
             IN  [err |-> FALSE, Algorithm |-> SubSeq(raw, 1, i - 1), Hex |-> From(raw, i + 1)]

\* layer.Digest.Algorithm + ":" + layer.Digest.Hex
DigestString(h) == h.Algorithm \o <<":">> \o h.Hex

Archs == {"amd64", "arm64"}
Platforms == {Nil} \cup {[Architecture |-> a] : a \in Archs}
IndexEntries == [Platform : Platforms, Digest : RawDigests]

\* A manifest document as the Registry Transport returns it.
BadJSON == [json |-> FALSE]
ImageDocs ==
    [json : {TRUE}, mediaType : MediaTypeValues, manifests : {<<>>},
     layers : SeqsUpTo(RawDigests, MaxLayers)]
IndexDocs ==
    [json : {TRUE}, mediaType : MediaTypeValues,
     manifests : SeqsUpTo(IndexEntries, MaxManifests) \ {<<>>}, layers : {<<>>}]
AllDocs == {BadJSON} \cup ImageDocs \cup IndexDocs

A == <<"sha256", ":", "a">>
B == <<"sha256", ":", "b">>
SampleIndex(mt) ==
    [json |-> TRUE, mediaType |-> [t |-> "str", s |-> mt],
     manifests |-> <<[Platform |-> [Architecture |-> "amd64"], Digest |-> A],
                     [Platform |-> [Architecture |-> "arm64"], Digest |-> B]>>,
     layers |-> <<>>]
SampleImage(ls) ==
    [json |-> TRUE, mediaType |-> [t |-> "str", s |-> DockerManifest],
     manifests |-> <<>>, layers |-> ls]
SampleDocs == {SampleIndex(DockerManifestList), SampleImage(<<A, B>>), SampleImage(<<>>)}

\* What the second fetch (repository@digest) may answer. Only its layers
\* are ever read, so the image documents vary and one index stands for
\* the documents without layers.
SubDocs ==
    {BadJSON, SampleIndex(DockerManifestList)}
        \cup {d \in ImageDocs : d.mediaType = [t |-> "str", s |-> DockerManifest]}

getImageDigestFromMultiImage(doc, arch) ==
    LET ms == doc.manifests
        hit == {i \in 1..Len(ms) : ms[i].Platform # Nil /\ ms[i].Platform.Architecture = arch}
    IN  IF \E i \in 1..Len(ms) : ParseHash(ms[i].Digest).err
        THEN [digest |-> <<>>, err |-> "ManifestDecodeError"]
        ELSE IF hit = {} THEN [digest |-> <<>>, err |-> "ArchitectureNotFound"]
        ELSE LET i == CHOOSE k \in hit : \A j \in hit : k <= j
             IN  [digest |-> DigestString(ParseHash(ms[i].Digest)), err |-> "none"]

\* getLayersDigestsFromManifestStream filling the list from its end.
getLayersDigestsFromManifestStream_Reversed(doc) ==
    IF ~doc.json \/ \E i \in 1..Len(doc.layers) : ParseHash(doc.layers[i]).err
    THEN [digests |-> <<>>, err |-> "ManifestDecodeError"]
    ELSE [digests |-> [i \in 1..Len(doc.layers) |->
                          DigestString(ParseHash(doc.layers[Len(doc.layers) + 1 - i]))],
          err |-> "none"]

getLayersDigestsFromManifestStream(doc) ==
    IF ~doc.json \/ \E i \in 1..Len(doc.layers) : ParseHash(doc.layers[i]).err
    THEN [digests |-> <<>>, err |-> "ManifestDecodeError"]
    ELSE [digests |-> [i \in 1..Len(doc.layers) |-> DigestString(ParseHash(doc.layers[i]))],
          err |-> "none"]

\* The part of getManifestStreamFromImage between the two fetches:
\* "single" (use this manifest), "index" (fetch digest next) or an error.
ClassifyManifest(doc, arch) ==
    IF ~doc.json THEN [kind |-> "err", err |-> "ManifestDecodeError"]
    ELSE IF doc.mediaType.t = "num" THEN [kind |-> "err", err |-> "ManifestDecodeError"]
    ELSE IF doc.mediaType.t = "absent" THEN [kind |-> "err", err |-> "ManifestDecodeError"]
    ELSE IF ContainsSub(doc.mediaType.s, ManifestListMarker)
    THEN LET d == getImageDigestFromMultiImage(doc, arch)
         IN  IF d.err # "none" THEN [kind |-> "err", err |-> d.err]
             ELSE [kind |-> "index", digest |-> d.digest]
    ELSE [kind |-> "single"]

\* RepoOf with the whole reference as repository when no separator is found.
RepoOf_WholeImage(image) ==
    IF SplitsInTwo(image, "@") THEN SplitHead(image, "@")
    ELSE IF SplitsInTwo(image, ":") THEN SplitHead(image, ":")
    ELSE image

\* repo as lines 202-208 derive it ("" when there is no separator).
RepoOf(image) ==
    IF SplitsInTwo(image, "@") THEN SplitHead(image, "@")
    ELSE IF SplitsInTwo(image, ":") THEN SplitHead(image, ":")
    ELSE <<>>

\* registryAuths: one crane.WithAuth option unless Auth is empty.
AuthOptions(auth) ==
    IF auth.Auth # "" THEN <<[Username |-> auth.Email, Auth |-> auth.Auth]>> ELSE <<>>

\* ------------------------------------------------------------ JSON
\* A decoded JSON value (interface{}); an object is a function from its
\* keys to values, and a key that is not in its domain is absent.
JStr(x) == [t |-> "str", s |-> x]
JNum == [t |-> "num"]
JNull == [t |-> "null"]
JObj(f) == [t |-> "obj", o |-> f]
JArr(x) == [t |-> "arr", a |-> x]

NoKeys == [k \in {} |-> JNull]
One(k, v) == [x \in {k} |-> v]
Merge(f, g) == [k \in DOMAIN f \cup DOMAIN g |-> IF k \in DOMAIN f THEN f[k] ELSE g[k]]

\* unstructured.NestedString with one field name.
NestedString(obj, key) ==
    IF key \notin DOMAIN obj THEN [val |-> "", found |-> FALSE, err |-> FALSE]
    ELSE IF obj[key].t = "str" THEN [val |-> obj[key].s, found |-> TRUE, err |-> FALSE]
    ELSE [val |-> "", found |-> FALSE, err |-> TRUE]

\* unstructured.NestedSlice(obj, "spec", "tags").
NestedSlice(obj) ==
    LET none == [val |-> <<>>, found |-> FALSE, err |-> FALSE]
        bad == [val |-> <<>>, found |-> FALSE, err |-> TRUE]
    IN  IF "spec" \notin DOMAIN obj THEN none
        ELSE IF obj["spec"].t = "null" THEN none
        ELSE IF obj["spec"].t # "obj" THEN bad
        ELSE IF "tags" \notin DOMAIN obj["spec"].o THEN none
        ELSE IF obj["spec"].o["tags"].t # "arr" THEN bad
        ELSE [val |-> obj["spec"].o["tags"].a, found |-> TRUE, err |-> FALSE]

DTKPath == "etc/driver-toolkit-release.json"
RefsPath == "release-manifests/image-references"

DTKKeys == {"KERNEL_VERSION", "RT_KERNEL_VERSION", "RHEL_VERSION"}
DTKObjects == UNION {[D -> {JNum, JStr(""), JStr("5.14.0")}] : D \in SUBSET DTKKeys}
GoodDTK == [k \in DTKKeys |-> JStr("5.14.0")]

\* The key of a tag that a projector reads, and the key it reads inside.
PayloadKey(o) == IF o = "ReleaseManifests" THEN "from" ELSE "annotations"
InnerKey(o) == IF o = "ReleaseManifests" THEN "name" ELSE "io.openshift.build.versions"
TargetTag(o) == IF o = "ReleaseManifests" THEN "driver-toolkit" ELSE "machine-os-content"

TagNames == {NoKeys} \cup {One("name", JStr(n)) : n \in {"foo", "driver-toolkit", "machine-os-content"}}
Payloads(o) ==
    {NoKeys}
        \cup {One(PayloadKey(o), v) :
                v \in {JStr("x"), JObj(NoKeys), JObj(One(InnerKey(o), JNum)),
                       JObj(One(InnerKey(o), JStr("reg.io/dtk:v1")))}}
TagValues(o) == {JStr("x")} \cup {JObj(Merge(n, q)) : n \in TagNames, q \in Payloads(o)}
ReleaseFiles(o) ==
    {NoKeys, One("spec", JNull), One("spec", JStr("x")), One("spec", JObj(NoKeys)),
     One("spec", JObj(One("tags", JStr("x"))))}
        \cup {One("spec", JObj(One("tags", JArr(l)))) : l \in SeqsUpTo(TagValues(o), MaxTags)}

\* ProjectToolkitRelease taking RT_KERNEL_VERSION as optional.
ProjectToolkitRelease_OptionalRT(obj) ==
    LET k == NestedString(obj, "KERNEL_VERSION")
        rt == NestedString(obj, "RT_KERNEL_VERSION")
        os == NestedString(obj, "RHEL_VERSION")
        missing(f) == [kind |-> "err", err |-> "MissingField", field |-> f, value |-> Nil]
    IN  IF ~k.found \/ k.err THEN missing("KERNEL_VERSION")
        ELSE IF ~os.found \/ os.err THEN missing("RHEL_VERSION")
        ELSE [kind |-> "ok",
              value |-> [ImageURL |-> "", KernelFullVersion |-> k.val,
                         RTKernelFullVersion |-> rt.val, OSVersion |-> os.val]]

\* ExtractToolkitRelease, lines 121-135, for the decoded file obj.
ProjectToolkitRelease(obj) ==
    LET k == NestedString(obj, "KERNEL_VERSION")
        rt == NestedString(obj, "RT_KERNEL_VERSION")
        os == NestedString(obj, "RHEL_VERSION")
        missing(f) == [kind |-> "err", err |-> "MissingField", field |-> f, value |-> Nil]
    IN  IF ~k.found \/ k.err THEN missing("KERNEL_VERSION")
        ELSE IF ~rt.found \/ rt.err THEN missing("RT_KERNEL_VERSION")
        ELSE IF ~os.found \/ os.err THEN missing("RHEL_VERSION")
        ELSE [kind |-> "ok",
              value |-> [ImageURL |-> "", KernelFullVersion |-> k.val,
                         RTKernelFullVersion |-> rt.val, OSVersion |-> os.val]]

\* The loop of ReleaseManifests (lines 148-161) and of
\* ReleaseImageMachineOSConfig (lines 175-188). The type assertions on the
\* tag and on its payload have no ok form: they panic on another type.
ScanTags(tags, o) ==
    LET notObj == {i \in 1..Len(tags) : tags[i].t # "obj"}
        named == {i \in 1..Len(tags) :
                     /\ tags[i].t = "obj"
                     /\ "name" \in DOMAIN tags[i].o
                     /\ tags[i].o["name"] = JStr(TargetTag(o))}
        stops == notObj \cup named
    IN  IF stops = {} THEN [kind |-> "err", err |-> "EntryNotFound"]
        ELSE LET i == CHOOSE k \in stops : \A j \in stops : k <= j
                 tag == tags[i].o
             IN  IF i \in notObj THEN [kind |-> "panic"]
                 ELSE IF PayloadKey(o) \notin DOMAIN tag
                 THEN [kind |-> "err", err |-> "MalformedTagEntry"]
                 ELSE IF tag[PayloadKey(o)].t # "obj" THEN [kind |-> "panic"]
                 ELSE LET n == NestedString(tag[PayloadKey(o)].o, InnerKey(o))
                      IN  IF ~n.found THEN [kind |-> "err", err |-> "MalformedTagEntry"]
                          ELSE [kind |-> "ok", value |-> n.val]

\* ReleaseManifests lines 144-161, ReleaseImageMachineOSConfig lines 170-188.
ProjectTags(obj, o) ==
    LET tags == NestedSlice(obj)
    IN  IF ~tags.found \/ tags.err THEN [kind |-> "err", err |-> "MissingField"]
        ELSE ScanTags(tags.val, o)

\* ------------------------------------------------------------ layers
ExtractOps == {"ExtractToolkitRelease", "ReleaseManifests", "ReleaseImageMachineOSConfig"}
HeaderName(o) == IF o = "ExtractToolkitRelease" THEN DTKPath ELSE RefsPath

Bodies(files) == {[t |-> "readerr"], [t |-> "badjson"]} \cup {[t |-> "json", o |-> f] : f \in files}
Archive(es, tl) == [compressed |-> "ok", gzip |-> "ok", entries |-> es, tail |-> tl]

\* Layers whose archive varies: the entry names of the scan, each with a
\* content that cannot be read, is not a JSON object, or is one.
ScanEntries == [name : {DTKPath, "a/b.json", "c.txt"}, body : Bodies({GoodDTK})]
ScanLayers ==
    {[compressed |-> "err"], [compressed |-> "ok", gzip |-> "err"]}
        \cup {Archive(es, tl) : es \in SeqsUpTo(ScanEntries, MaxTarEntries), tl \in {"eof", "err"}}

\* Layers whose file varies: the file of the operation, alone in the archive.
FileLayers(o) ==
    {Archive(<<[name |-> HeaderName(o), body |-> [t |-> "json", o |-> f]]>>, "eof") :
        f \in (IF o = "ExtractToolkitRelease" THEN DTKObjects ELSE ReleaseFiles(o))}

Layers(sc, o) ==
    IF sc = "json" THEN FileLayers(o)
    ELSE IF o = "ExtractToolkitRelease" THEN ScanLayers
    ELSE {}

\* ------------------------------------------------------------ state
VARIABLES
    scope,          \* which input dimension this run enumerates in full
    op,             \* the public operation the caller invoked
    pc,             \* where that operation stands
    image,          \* LastLayer / GetLayersDigests: the image reference
    goarch,         \* runtime.GOARCH
    registry,       \* GetLayersDigests: registry
    secret,         \* what the Credential Store answered
    auth,           \* GetLayersDigests: auth
    repo,           \* GetLayersDigests: repo
    registryAuths,  \* GetLayersDigests: registryAuths
    manifest,       \* the manifest the digests are derived from
    digests,        \* GetLayersDigests: digests
    calls,          \* Registry Transport calls made so far, in order
    layer,          \* the layer given to a projector
    targz,          \* getHeaderFromLayer: the compressed stream
    gr,             \* getHeaderFromLayer: the gzip reader
    defers,         \* getHeaderFromLayer: deferred Close calls, last one last
    visited,        \* archive entries tr.Next() returned, in order
    bodyRead,       \* archive entries whose content was read
    ret,            \* what getHeaderFromLayer is returning
    result          \* what the operation returned (Nil while it runs)

resolveVars ==
    <<image, goarch, registry, secret, auth, repo, registryAuths, manifest, digests, calls>>
extractVars == <<layer, targz, gr, defers, visited, bodyRead, ret>>
vars == <<scope, op, pc, result, resolveVars, extractVars>>

ResolveOps == {"GetLayersDigests", "LastLayer"}

AllImages == SeqsUpTo(Alphabet, MaxImageLen)
SampleImages == {<<"h", "/", "h", ":", "h">>, <<"h", "/", "h", "@", "h">>}

\* References with a registry port, longer than MaxImageLen.
PortImages ==
    {<<"h", ":", "5", "/", "h", "/", "h", ":", "h">>, <<"h", ":", "5", "/", "h", "@", "h", ":", "5">>}

Images(sc) == IF sc = "refs" THEN AllImages \cup PortImages ELSE SampleImages
Secrets(sc) == IF sc = "refs" THEN AllSecrets ELSE SampleSecrets
Docs(sc) == IF sc = "refs" THEN SampleDocs ELSE AllDocs
SecondDocs(sc) == IF sc = "refs" THEN SampleDocs ELSE SubDocs

Err(e) == [kind |-> "err", err |-> e]
Panic == [kind |-> "panic"]

NoResolve ==
    /\ registry = <<>>
    /\ secret = Nil
    /\ auth = Nil
    /\ repo = <<>>
    /\ registryAuths = <<>>
    /\ manifest = Nil
    /\ digests = <<>>
    /\ calls = <<>>

NoExtract ==
    /\ targz = "unopened"
    /\ gr = "unopened"
    /\ defers = <<>>
    /\ visited = <<>>
    /\ bodyRead = {}
    /\ ret = Nil

InitResolve ==
    /\ scope \in {"refs", "manifests"}
    /\ op \in ResolveOps
    /\ image \in Images(scope)
    /\ goarch \in (IF scope = "refs" THEN {"amd64"} ELSE Archs)
    /\ layer = Nil

InitExtract ==
    /\ scope \in {"archives", "json"}
    /\ op \in ExtractOps
    /\ layer \in Layers(scope, op)
    /\ image = <<>>
    /\ goarch = "amd64"

Fail(e) ==
    /\ result' = Err(e)
    /\ pc' = "done"

\* GetLayersDigests, line 192.
ParseRegistry ==
    /\ op \in ResolveOps /\ pc = "start"
    /\ LET r == registryFromImageURL(image)
       IN  IF r.err # "none"
           THEN Fail(r.err) /\ UNCHANGED registry
           ELSE registry' = r.host /\ pc' = "creds" /\ UNCHANGED result
    /\ UNCHANGED <<scope, op, image, goarch, secret, auth, repo, registryAuths,
                   manifest, digests, calls, extractVars>>

\* GetLayersDigests, lines 197-217: the pull secret is read, then the
\* repository and the credential options are derived.
ResolveCredentials ==
    /\ op \in ResolveOps /\ pc = "creds"
    /\ \E s \in Secrets(scope) :
         LET c == getImageRegistryCredentials(s, registry)
         IN  /\ secret' = s
             /\ IF c.err # "none"
                THEN Fail(c.err) /\ UNCHANGED <<auth, repo, registryAuths>>
                ELSE /\ auth' = c.auth
                     /\ repo' = RepoOf(image)
                     /\ IF RepoOf(image) = <<>>
                        THEN Fail("InvalidReference") /\ UNCHANGED registryAuths
                        ELSE /\ registryAuths' = AuthOptions(c.auth)
                             /\ pc' = "manifest"
                             /\ UNCHANGED result
    /\ UNCHANGED <<scope, op, image, goarch, registry, manifest, digests, calls, extractVars>>

\* GetLayersDigests lines 224-229 and LastLayer lines 105-108, once the
\* manifest m to decode is known.
FinishDigests(m) ==
    LET d == getLayersDigestsFromManifestStream(m)
    IN  /\ manifest' = m
        /\ IF d.err # "none"
           THEN Fail(d.err) /\ UNCHANGED digests
           ELSE /\ digests' = d.digests
                /\ IF op = "LastLayer"
                   THEN pc' = "pull" /\ UNCHANGED result
                   ELSE /\ pc' = "done"
                        /\ result' = [kind |-> "ok", repo |-> repo, digests |-> d.digests,
                                      auths |-> registryAuths]

\* One crane.Manifest call and its answer, as the transport saw it.
ManifestCall(ref, resp) == [fn |-> "Manifest", ref |-> ref, opts |-> registryAuths, resp |-> resp]

\* getManifestStreamFromImage, lines 237-259: the first fetch.
FetchManifest ==
    /\ op \in ResolveOps /\ pc = "manifest"
    /\ \E resp \in {Err("TransportError")} \cup Docs(scope) :
         /\ calls' = Append(calls, ManifestCall(image, resp))
         /\ IF resp = Err("TransportError")
            THEN Fail("TransportError") /\ UNCHANGED <<manifest, digests>>
            ELSE LET c == ClassifyManifest(resp, goarch)
                 IN  IF c.kind = "err" THEN Fail(c.err) /\ manifest' = resp /\ UNCHANGED digests
                     ELSE IF c.kind = "index"
                     THEN /\ manifest' = resp
                          /\ pc' = "submanifest"
                          /\ UNCHANGED <<digests, result>>
                     ELSE FinishDigests(resp)
    /\ UNCHANGED <<scope, op, image, goarch, registry, secret, auth, repo, registryAuths,
                   extractVars>>

\* getManifestStreamFromImage, lines 260-266: the fetch of the manifest of
\* the process architecture.
FetchSubManifest ==
    /\ op \in ResolveOps /\ pc = "submanifest"
    /\ \E resp \in {Err("TransportError")} \cup SecondDocs(scope) :
         /\ LET d == getImageDigestFromMultiImage(manifest, goarch).digest
            IN  calls' = Append(calls, ManifestCall(repo \o <<"@">> \o d, resp))
         /\ IF resp = Err("TransportError")
            THEN Fail("TransportError") /\ UNCHANGED <<manifest, digests>>
            ELSE FinishDigests(resp)
    /\ UNCHANGED <<scope, op, image, goarch, registry, secret, auth, repo, registryAuths,
                   extractVars>>

\* LastLayer, line 109. Indexing an empty digest list is a run-time panic
\* (index out of range), and no fetch is made.
PullLastLayer ==
    /\ op = "LastLayer" /\ pc = "pull"
    /\ IF digests = <<>>
       THEN result' = Panic /\ UNCHANGED calls
       ELSE LET ref == repo \o <<"@">> \o digests[Len(digests)]
            IN  /\ calls' = Append(calls, [fn |-> "PullLayer", ref |-> ref, opts |-> registryAuths])
                /\ \E ok \in BOOLEAN :
                     result' = IF ok THEN [kind |-> "ok", layer |-> ref] ELSE Err("TransportError")
    /\ pc' = "done"
    /\ UNCHANGED <<scope, op, image, goarch, registry, secret, auth, repo, registryAuths,
                   manifest, digests, extractVars>>

\* GetLayerByDigest, called with what GetLayersDigests returned and one of
\* the digests of its list.
GetLayerByDigest ==
    /\ op = "GetLayersDigests" /\ pc = "done" /\ result.kind = "ok"
    /\ \E i \in 1..Len(result.digests) :
         calls' = Append(calls, [fn |-> "PullLayer", ref |-> result.repo \o <<"@">> \o result.digests[i],
                                 opts |-> result.auths])
    /\ pc' = "fetched"
    /\ UNCHANGED <<scope, op, result, image, goarch, registry, secret, auth, repo,
                   registryAuths, manifest, digests, extractVars>>

\* ------------------------------------------------------------ extractor
Return(v) ==
    /\ ret' = v
    /\ pc' = "unwind"

LayerErr(e) == [obj |-> Nil, err |-> e]

\* getHeaderFromLayer, lines 285-290.
OpenCompressed ==
    /\ op \in ExtractOps /\ pc = "start"
    /\ IF layer.compressed = "err"
       THEN Return(LayerErr("LayerReadError")) /\ UNCHANGED <<targz, defers>>
       ELSE /\ targz' = "open"
            /\ defers' = Append(defers, "targz")
            /\ pc' = "gzip"
            /\ UNCHANGED ret
    /\ UNCHANGED <<scope, op, result, resolveVars, layer, gr, visited, bodyRead>>

\* OpenGzip without the deferred gr.Close().
OpenGzip_NoDefer ==
    /\ op \in ExtractOps /\ pc = "gzip"
    /\ IF layer.gzip = "err"
       THEN Return(LayerErr("LayerReadError")) /\ UNCHANGED <<gr, defers>>
       ELSE /\ gr' = "open"
            /\ pc' = "next"
            /\ UNCHANGED <<ret, defers>>
    /\ UNCHANGED <<scope, op, result, resolveVars, layer, targz, visited, bodyRead>>

\* getHeaderFromLayer, lines 292-299.
OpenGzip ==
    /\ op \in ExtractOps /\ pc = "gzip"
    /\ IF layer.gzip = "err"
       THEN Return(LayerErr("LayerReadError")) /\ UNCHANGED <<gr, defers>>
       ELSE /\ gr' = "open"
            /\ defers' = Append(defers, "gr")
            /\ pc' = "next"
            /\ UNCHANGED ret
    /\ UNCHANGED <<scope, op, result, resolveVars, layer, targz, visited, bodyRead>>

\* getHeaderFromLayer, lines 302-310: one tr.Next() and the comparison of
\* the name it returned.
TarNext ==
    /\ op \in ExtractOps /\ pc = "next"
    /\ LET i == Len(visited) + 1
       IN  IF i > Len(layer.entries)
           THEN /\ Return(LayerErr(IF layer.tail = "eof" THEN "FileNotFoundInLayer"
                                   ELSE "LayerReadError"))
                /\ UNCHANGED visited
           ELSE /\ visited' = Append(visited, i)
                /\ pc' = IF layer.entries[i].name = HeaderName(op) THEN "read" ELSE "next"
                /\ UNCHANGED ret
    /\ UNCHANGED <<scope, op, result, resolveVars, layer, targz, gr, defers, bodyRead>>

\* ReadEntry going on with the scan after the entry it decoded.
ReadEntry_KeepsScanning ==
    /\ op \in ExtractOps /\ pc = "read"
    /\ LET i == visited[Len(visited)]
           body == layer.entries[i].body
       IN  /\ bodyRead' = bodyRead \cup {i}
           /\ IF body.t = "json"
              THEN ret' = [obj |-> body.o, err |-> "none"] /\ pc' = "next"
              ELSE Return(LayerErr("LayerReadError"))
    /\ UNCHANGED <<scope, op, result, resolveVars, layer, targz, gr, defers, visited>>

\* getHeaderFromLayer, lines 311-321: the content of the entry tr stands
\* on is read and decoded.
ReadEntry ==
    /\ op \in ExtractOps /\ pc = "read"
    /\ LET i == visited[Len(visited)]
           body == layer.entries[i].body
       IN  /\ bodyRead' = bodyRead \cup {i}
           /\ Return(IF body.t = "json" THEN [obj |-> body.o, err |-> "none"]
                     ELSE LayerErr("LayerReadError"))
    /\ UNCHANGED <<scope, op, result, resolveVars, layer, targz, gr, defers, visited>>

Close(r) == IF r = "open" THEN "closed" ELSE "closed-unopened"

\* The deferred Close calls of getHeaderFromLayer run as it returns, the
\* one deferred last first.
RunDeferred ==
    /\ op \in ExtractOps /\ pc = "unwind" /\ defers # <<>>
    /\ LET d == defers[Len(defers)]
       IN  /\ targz' = IF d = "targz" THEN Close(targz) ELSE targz
           /\ gr' = IF d = "gr" THEN Close(gr) ELSE gr
    /\ defers' = SubSeq(defers, 1, Len(defers) - 1)
    /\ UNCHANGED <<scope, op, pc, result, resolveVars, layer, visited, bodyRead, ret>>

Projector(o, obj) ==
    IF o = "ExtractToolkitRelease" THEN ProjectToolkitRelease(obj) ELSE ProjectTags(obj, o)

\* The projector, once getHeaderFromLayer has returned.
Project ==
    /\ op \in ExtractOps /\ pc = "unwind" /\ defers = <<>>
    /\ result' = IF ret.err # "none" THEN [kind |-> "err", err |-> ret.err, value |-> Nil]
                 ELSE Projector(op, ret.obj)
    /\ pc' = "done"
    /\ UNCHANGED <<scope, op, resolveVars, extractVars>>

\* ------------------------------------------------------------ properties
Returned == pc \in {"done", "fetched"}
Resolving == op \in ResolveOps
NoSeparator == ~Contains(image, "@") /\ ~Contains(image, ":")
CredentialErrors ==
    {"CredentialStoreUnavailable", "SecretDataMissing", "MalformedCredentials", "NoCredentialForHost"}
HostHasEntry == secret.kind = "ok" /\ registry \in DOMAIN secret.Auths

\* C1, as stated: every reference with neither "@" nor ":" makes
\* GetLayersDigests fail with InvalidReference, whatever the Credential
\* Store answers.
C1_AlwaysInvalidReference ==
    (Resolving /\ Returned /\ NoSeparator) => result = Err("InvalidReference")

\* C1, amended: a reference with neither "@" nor ":" makes GetLayersDigests
\* fail without any Registry Transport call; the error is InvalidReference
\* when no registry host can be derived or the pull secret has an entry for
\* the host, and the Credential Resolver's error when that resolution fails.
C1_FailsBeforeAnyFetch ==
    (Resolving /\ Returned /\ NoSeparator) =>
        /\ result.kind = "err"
        /\ calls = <<>>
        /\ IF secret = Nil \/ HostHasEntry
           THEN result.err = "InvalidReference"
           ELSE result.err \in CredentialErrors

C1_Witness ==
    /\ op = "GetLayersDigests" /\ Returned /\ NoSeparator
    /\ HostHasEntry
    /\ image = <<"h", "/", "h">>
    /\ result = Err("InvalidReference")

\* The reference names a repository: there is text before its first "@",
\* or, with no "@", before its first ":".
NamesRepository ==
    \/ Contains(image, "@") /\ image[1] # "@"
    \/ ~Contains(image, "@") /\ Contains(image, ":") /\ image[1] # ":"

\* C2: the credential of a host is the Auths entry of that host; a host
\* with no entry ends GetLayersDigests and LastLayer in NoCredentialForHost
\* with no Registry Transport call made; an entry with an empty Auth goes on
\* to the manifest fetch, made with no credential option.
C2_NoAnonymousFallback ==
    (Resolving /\ secret.kind = "ok") =>
        /\ registry \notin DOMAIN secret.Auths =>
              /\ pc = "done"
              /\ result = Err("NoCredentialForHost")
              /\ calls = <<>>
        /\ registry \in DOMAIN secret.Auths =>
              /\ auth = secret.Auths[registry]
              /\ result # Err("NoCredentialForHost")
        /\ (registry \in DOMAIN secret.Auths /\ secret.Auths[registry].Auth = "" /\ NamesRepository) =>
              /\ pc = "manifest" \/ (Len(calls) >= 1 /\ calls[1].fn = "Manifest" /\ calls[1].ref = image)
              /\ \A i \in 1..Len(calls) : calls[i].opts = <<>>

C2_Witness ==
    /\ op = "LastLayer" /\ pc = "done"
    /\ secret.kind = "ok"
    /\ DOMAIN secret.Auths = {<<"h", ":", "5">>}
    /\ registry = <<"h">>
    /\ NamesRepository
    /\ result = Err("NoCredentialForHost")

IsDoc(r) == "json" \in DOMAIN r
FnCalls(f) == SelectSeq(calls, LAMBDA c : c.fn = f)
WellFormed(raw) == Cardinality({i \in 1..Len(raw) : raw[i] = ":"}) = 1

\* The media types under which a registry serves a multi-architecture
\* manifest index: the Docker manifest list and the OCI image index.
IsManifestIndex(doc) ==
    /\ doc.json
    /\ doc.mediaType.t = "str"
    /\ doc.mediaType.s \in {DockerManifestList, OCIImageIndex}

FirstIsIndex(types) ==
    /\ Resolving /\ Returned
    /\ Len(calls) >= 1
    /\ IsDoc(calls[1].resp)
    /\ IsManifestIndex(calls[1].resp)
    /\ calls[1].resp.mediaType.s \in types
    /\ \A i \in 1..Len(calls[1].resp.manifests) : WellFormed(calls[1].resp.manifests[i].Digest)

IndexResolved ==
    LET ms == calls[1].resp.manifests
        hit == {i \in 1..Len(ms) : ms[i].Platform # Nil /\ ms[i].Platform.Architecture = goarch}
    IN  IF hit = {}
        THEN /\ result = Err("ArchitectureNotFound")
             /\ Len(FnCalls("Manifest")) = 1
        ELSE LET i == CHOOSE k \in hit : \A j \in hit : k <= j
             IN  /\ Len(FnCalls("Manifest")) = 2
                 /\ calls[2].fn = "Manifest"
                 /\ calls[2].ref = repo \o <<"@">> \o ms[i].Digest
                 /\ (op = "GetLayersDigests" /\ result.kind = "ok") =>
                        result.digests = calls[2].resp.layers

\* C3, as stated: whenever the manifest fetched for the reference is a
\* manifest index, the entry of the process architecture is selected, one
\* further manifest is fetched at repository@digest and the digest list is
\* derived from it; with no such entry the call fails with
\* ArchitectureNotFound and fetches nothing more.
C3_IndexResolvedByArchitecture ==
    FirstIsIndex({DockerManifestList, OCIImageIndex}) => IndexResolved

\* What does hold of C3: the same, for the indexes whose media type
\* contains "manifest.list".
C3_ManifestListResolvedByArchitecture ==
    FirstIsIndex({DockerManifestList}) => IndexResolved

\* The manifest the digests are derived from is a single-platform manifest
\* with at least one layer, every digest of it well formed.
LastManifest == FnCalls("Manifest")[Len(FnCalls("Manifest"))].resp
ResolvedWithLayers ==
    /\ Resolving /\ Returned
    /\ FnCalls("Manifest") # <<>>
    /\ IsDoc(LastManifest)
    /\ LastManifest.json
    /\ LastManifest.mediaType = [t |-> "str", s |-> DockerManifest]
    /\ LastManifest.layers # <<>>
    /\ \A i \in 1..Len(LastManifest.layers) : WellFormed(LastManifest.layers[i])

\* C4: for a single-platform manifest with layers L0..Ln the digests
\* GetLayersDigests returns are those of L0..Ln, in that order, and
\* LastLayer makes one layer fetch, at repository@d(Ln), and no other.
C4_DigestsInLayerOrder ==
    ResolvedWithLayers =>
        LET ls == LastManifest.layers
        IN  /\ op = "GetLayersDigests" =>
                  /\ result.kind = "ok"
                  /\ Len(result.digests) = Len(ls)
                  /\ \A i \in 1..Len(ls) : result.digests[i] = ls[i]
            /\ op = "LastLayer" =>
                  /\ Len(FnCalls("PullLayer")) = 1
                  /\ FnCalls("PullLayer")[1].ref = repo \o <<"@">> \o ls[Len(ls)]
                  /\ calls[Len(calls)].fn = "PullLayer"

C4_Witness ==
    /\ ResolvedWithLayers
    /\ op = "LastLayer"
    /\ LastManifest.layers = <<B, A>>
    /\ result = [kind |-> "ok", layer |-> <<"h", "/", "h", "@", "sha256", ":", "a">>]

\* C9, as stated: LastLayer always ends with a layer or an error value; it
\* never indexes an empty digest list.
C9_LastLayerNeverPanics ==
    (op = "LastLayer" /\ pc = "done") => result.kind \in {"ok", "err"}

\* The reference is repository, one separator, and a suffix that is a tag
\* or a digest (it reaches the end and holds no "/").
OnlySuffixRemoved(r) ==
    /\ Len(r) < Len(image)
    /\ SubSeq(image, 1, Len(r)) = r
    /\ image[Len(r) + 1] \in {":", "@"}
    /\ ~Contains(From(image, Len(r) + 2), "/")

\* C10, as stated: the repository GetLayersDigests returns is the
\* reference less its trailing tag or digest; it begins with the registry
\* host (port included), so every fetch at repository@digest goes to the
\* registry and repository of the reference.
C10_RepositoryKeepsRegistry ==
    (op = "GetLayersDigests" /\ Returned /\ result.kind = "ok") =>
        /\ HasPrefix(result.repo, registry)
        /\ OnlySuffixRemoved(result.repo)
        /\ \A i \in 2..Len(calls) : HasPrefix(calls[i].ref, registry \o <<"/">>)

Extracting == op \in ExtractOps
IsArchive == "entries" \in DOMAIN layer
Matching == {i \in 1..Len(layer.entries) : layer.entries[i].name = HeaderName(op)}
FirstMatch == CHOOSE k \in Matching : \A j \in Matching : k <= j
\* getHeaderFromLayer has returned (its deferred calls have run).
ScanOver == pc = "done" \/ (pc = "unwind" /\ defers = <<>>)

\* C5: the scan takes the entries in stream order and stops at the first
\* one named as the target: it returns the decoded content of that entry
\* and neither advances to nor reads any entry after it.
C5_StopsAtFirstMatch ==
    (Extracting /\ IsArchive) =>
        /\ \A i \in 1..Len(visited) : visited[i] = i
        /\ Matching # {} =>
              /\ Len(visited) <= FirstMatch
              /\ bodyRead \subseteq {FirstMatch}
              /\ ScanOver =>
                    /\ Len(visited) = FirstMatch
                    /\ bodyRead = {FirstMatch}
                    /\ layer.entries[FirstMatch].body.t = "json" =>
                          ret = [obj |-> layer.entries[FirstMatch].body.o, err |-> "none"]
        /\ Matching = {} => bodyRead = {}

C5_Witness ==
    /\ op = "ExtractToolkitRelease" /\ pc = "done" /\ IsArchive
    /\ Len(layer.entries) = 3
    /\ layer.entries[1].name = "a/b.json"
    /\ layer.entries[2].name = DTKPath
    /\ layer.entries[3].name = "c.txt"
    /\ visited = <<1, 2>>
    /\ bodyRead = {2}
    /\ result.kind = "ok"

\* C6: whatever way getHeaderFromLayer returns, the compressed stream and
\* the gzip reader are closed if they were opened and untouched if they
\* were not; no Close is made on a reader that was never opened.
C6_ReadersClosedOnReturn ==
    Extracting =>
        /\ targz # "closed-unopened"
        /\ gr # "closed-unopened"
        /\ ScanOver =>
              /\ targz = IF layer.compressed = "ok" THEN "closed" ELSE "unopened"
              /\ gr = IF layer.compressed = "ok" /\ layer.gzip = "ok" THEN "closed" ELSE "unopened"

C6_Witness ==
    /\ Extracting /\ pc = "done" /\ IsArchive
    /\ Matching # {}
    /\ Len(layer.entries) > FirstMatch
    /\ result.kind = "ok"
    /\ targz = "closed"
    /\ gr = "closed"

ToolkitReturned == op = "ExtractToolkitRelease" /\ pc = "done"

\* C7, as stated: a successful ExtractToolkitRelease returns an entry with
\* image URL, kernel version, real-time kernel version and OS version all
\* populated; any other outcome is an error and no entry.
C7_AllFieldsPopulated ==
    ToolkitReturned =>
        IF result.kind = "ok"
        THEN /\ result.value.ImageURL # ""
             /\ result.value.KernelFullVersion # ""
             /\ result.value.RTKernelFullVersion # ""
             /\ result.value.OSVersion # ""
        ELSE result.kind = "err" /\ result.value = Nil

\* C7, amended: ExtractToolkitRelease succeeds exactly when the file was
\* decoded and KERNEL_VERSION, RT_KERNEL_VERSION and RHEL_VERSION are all
\* there as strings (an empty string included); the entry then carries
\* these three values and an empty image URL; any other outcome is an error
\* and no entry.
C7_ThreeVersionsOrError ==
    ToolkitReturned =>
        LET decoded == ret.err = "none"
            str(k) == decoded /\ k \in DOMAIN ret.obj /\ ret.obj[k].t = "str"
        IN  IF \A k \in DTKKeys : str(k)
            THEN result = [kind |-> "ok",
                           value |-> [ImageURL |-> "",
                                      KernelFullVersion |-> ret.obj["KERNEL_VERSION"].s,
                                      RTKernelFullVersion |-> ret.obj["RT_KERNEL_VERSION"].s,
                                      OSVersion |-> ret.obj["RHEL_VERSION"].s]]
            ELSE result.kind = "err" /\ result.value = Nil

C7_Witness ==
    /\ ToolkitReturned
    /\ scope = "json"
    /\ result.kind = "ok"
    /\ result.value.KernelFullVersion = "5.14.0"
    /\ result.value.RTKernelFullVersion = ""
    /\ result.value.OSVersion = "5.14.0"
    /\ result.value.ImageURL = ""

\* C8, as stated: with spec.tags an array, ReleaseManifests ends in one of
\* three ways: the from.name of the first driver-toolkit tag; EntryNotFound
\* when no tag has that name; MalformedTagEntry when from or from.name of
\* that tag is missing or of another shape.
C8_ThreeOutcomes ==
    (op = "ReleaseManifests" /\ pc = "done" /\ ret.err = "none" /\ NestedSlice(ret.obj).found) =>
        \/ result.kind = "ok"
        \/ result = [kind |-> "err", err |-> "EntryNotFound"]
        \/ result = [kind |-> "err", err |-> "MalformedTagEntry"]

Init ==
    /\ pc = "start"
    /\ result = Nil
    /\ NoResolve
    /\ NoExtract
    /\ (InitResolve \/ InitExtract)

Next ==
    \/ ParseRegistry
    \/ ResolveCredentials
    \/ FetchManifest
    \/ FetchSubManifest
    \/ PullLastLayer
    \/ GetLayerByDigest
    \/ OpenCompressed
    \/ OpenGzip
    \/ TarNext
    \/ ReadEntry
    \/ RunDeferred
    \/ Project

Spec == Init /\ [][Next]_vars
====
